---- MODULE Spec2Model ----
\*  Model of the TUI editor widget (tui_editor/tui_editor.py) and of its
\*  terminal controller (tui_editor/tty_helpers.py).
\*
\*  Text is modelled as sequences of code points, raw input as sequences of
\*  byte values.  A key, which in the source is an int (KEY_*), a bytes
\*  object or a str, is the record [t |-> "int" | "bytes" | "str", v |-> a
\*  sequence of numbers].
\*
\*  The handlers are written as functions on a record `s' that holds the
\*  mutable fields of TuiEditor, of TtyController and of the terminal; the
\*  field err carries a raised exception, and every later statement of a
\*  handler is skipped once it is set, as the exception unwinds the stack.
\*  A sequence of statements a; b; c is the composition c(b(a(s))), and the
\*  rest of a method after a call is an operator of its own where needed.
EXTENDS Integers, Sequences, FiniteSets, TLC

VARIABLES
    content,            \* TuiEditor._content: list of lines
    top_line_idx,       \* TuiEditor.top_line_idx
    row,                \* TuiEditor.row
    col,                \* TuiEditor.col
    height,             \* TuiEditor.height (configuration)
    show_line_numbers,  \* TuiEditor.show_line_numbers (configuration)
    status_content,     \* TuiEditor._status_content
    control_key_abort,  \* TuiEditor._control_key_abort (a bytes key)
    control_key_quit,   \* TuiEditor._control_key_quit (a bytes key)
    tty_row,            \* TtyController.row
    tty_col,            \* TtyController.col
    screen_top,         \* TtyController.screen_top
    prev_total_height,  \* TtyController.prev_total_height
    width,              \* TtyController.width
    initialized,        \* TtyController.initialized
    orig_termios,       \* TtyController._orig_termios
    orig_sig_win_ch,    \* TtyController._orig_sig_win_ch
    termios,            \* the terminal's attributes: "cooked" or "raw"
    sig_win_ch,         \* the installed SIGWINCH handler
    term_row,           \* the terminal's cursor row (absolute, 0-based)
    term_origin,        \* the terminal row that holds the line the cursor stood in
                        \* when edit() was called: the widget's logical row 0
                        \* (negative once that line has scrolled off the screen)
    stdin,              \* bytes waiting in the terminal's input queue
    pc,                 \* where the host program is: idle, reading, returned, raised
    exc,                \* the exception that left edit(), "" if none
    buf,                \* loop(): the chunk being handled (a bytes or str key record)
    i,                  \* loop(): index of the next unit of buf
    hooked,             \* a user hook has run in this loop
    drawn,              \* the screen: for each editor row, by how many characters
                        \* the line drawn in it is shifted to the left
    grown,              \* the growths of the reserved space in the last operation,
                        \* and the state after the last of them (history)
    last,               \* the last operation performed and its inputs (history)
    at_read             \* text and cursor when the chunk in buf was read (history)

vars == <<content, top_line_idx, row, col, height, show_line_numbers, status_content,
          control_key_abort, control_key_quit,
          tty_row, tty_col, screen_top, prev_total_height, width, initialized,
          orig_termios, orig_sig_win_ch, termios, sig_win_ch, term_row, term_origin,
          stdin, pc, exc, buf, i, hooked, drawn, grown, last, at_read>>

----------------------------------------------------------------------------
(* Bounds of the model *)

MaxLines == 3      \* Enter is not taken beyond this many lines
MaxChars == 2      \* printable input is not taken beyond this many characters in all
MaxHeight == 2     \* the configured heights are 1..MaxHeight
TermRows == 5      \* rows of the terminal

(* The alphabet of the text *)
Chars == {97, 98}
NL == 10

----------------------------------------------------------------------------
(* Arithmetic and sequence helpers: Python's slices, min, max, str(n) *)

Min(a, b) == IF a <= b THEN a ELSE b
Max(a, b) == IF a >= b THEN a ELSE b

\* line[:n] for n >= 0
Take(line, n) == SubSeq(line, 1, Min(n, Len(line)))

\* line[n:] for n >= 0
Drop(line, n) == SubSeq(line, Min(n, Len(line)) + 1, Len(line))

\* list.insert(idx, x) for idx >= 0 (an index beyond the end appends)
ListInsert(l, idx, x) == Take(l, idx) \o <<x>> \o Drop(l, idx)

\* the list after list.pop(idx), for a valid idx
ListPop(l, idx) == Take(l, idx) \o Drop(l, idx + 1)

RECURSIVE DigitCount(_)
\* len(str(n)) for n >= 0
DigitCount(n) == IF n < 10 THEN 1 ELSE 1 + DigitCount(n \div 10)

RECURSIVE TotalChars(_)
TotalChars(l) == IF l = <<>> THEN 0 ELSE Len(Head(l)) + TotalChars(Tail(l))

RECURSIVE SplitFrom(_, _)
\* text.split("\n") when cur is the part of the current line already scanned
SplitFrom(text, cur) ==
    IF text = <<>> THEN <<cur>>
    ELSE IF Head(text) = NL THEN <<cur>> \o SplitFrom(Tail(text), <<>>)
    ELSE SplitFrom(Tail(text), Append(cur, Head(text)))

\* str.splitlines() in place of str.split("\n"): no empty last line after a
\* final line break, and no line at all for the empty string
RECURSIVE SplitLinesFrom(_, _)
SplitLinesFrom(text, cur) ==
    IF text = <<>> THEN (IF cur = <<>> THEN <<>> ELSE <<cur>>)
    ELSE IF Head(text) = NL THEN <<cur>> \o SplitLinesFrom(Tail(text), <<>>)
    ELSE SplitLinesFrom(Tail(text), Append(cur, Head(text)))

Splitlines(text) == SplitLinesFrom(text, <<>>)

\* text.split("\n")
Split(text) == SplitFrom(text, <<>>)

RECURSIVE Join(_)
\* "\n".join(lines)
Join(lines) ==
    IF lines = <<>> THEN <<>>
    ELSE IF Len(lines) = 1 THEN lines[1]
    ELSE lines[1] \o <<NL>> \o Join(Tail(lines))

\* all sequences over S of length up to n
SeqsUpTo(S, n) == UNION {[1..k -> S] : k \in 0..n}

----------------------------------------------------------------------------
(* Keys: tty_helpers.py, KEY_* and KEYMAP *)

KEY_UP == 1
KEY_DOWN == 2
KEY_LEFT == 3
KEY_RIGHT == 4
KEY_HOME == 5
KEY_END == 6
KEY_PGUP == 7
KEY_PGDN == 8
KEY_ENTER == 10
KEY_BACKSPACE == 11
KEY_DELETE == 12

IntKey(n) == [t |-> "int", v |-> <<n>>]
BytesKey(b) == [t |-> "bytes", v |-> b]
StrKey(c) == [t |-> "str", v |-> c]

ESC == 27

\* the table KEYMAP as a set of <<bytes, KEY_*>> pairs
KeymapPairs ==
    { <<(<<27, 91, 65>>), KEY_UP>>,
      <<(<<27, 91, 66>>), KEY_DOWN>>,
      <<(<<27, 91, 68>>), KEY_LEFT>>,
      <<(<<27, 91, 67>>), KEY_RIGHT>>,
      <<(<<27, 79, 72>>), KEY_HOME>>,
      <<(<<27, 79, 70>>), KEY_END>>,
      <<(<<27, 98>>), KEY_HOME>>,
      <<(<<27, 102>>), KEY_END>>,
      <<(<<27, 91, 49, 126>>), KEY_HOME>>,
      <<(<<27, 91, 52, 126>>), KEY_END>>,
      <<(<<27, 91, 53, 126>>), KEY_PGUP>>,
      <<(<<27, 91, 54, 126>>), KEY_PGDN>>,
      <<(<<13>>), KEY_ENTER>>,
      <<(<<127>>), KEY_BACKSPACE>>,
      <<(<<27, 91, 51, 126>>), KEY_DELETE>> }

\* `if key in KEYMAP: key = KEYMAP[key]': only a bytes object equals a key of
\* the table; a str never does
KEYMAP(key) ==
    IF key.t = "bytes" /\ \E p \in KeymapPairs : p[1] = key.v
    THEN IntKey((CHOOSE p \in KeymapPairs : p[1] = key.v)[2])
    ELSE key

\* _control_key(key) for an upper- or lower-case letter given by its code point
\* (None, for no key, is the empty bytes key here, which no key read equals)
_control_key(letter) ==
    IF letter = 0 THEN BytesKey(<<>>)
    ELSE LET up == IF letter >= 97 /\ letter <= 122 THEN letter - 32 ELSE letter
         IN BytesKey(<<up - 65 + 1>>)

----------------------------------------------------------------------------
(* UTF-8: bytes.decode("utf8") for one- and two-byte sequences; any other   *)
(* lead byte is outside the inputs of the model and is reported as invalid *)

RECURSIVE Utf8Decode(_)
\* [ok |-> BOOLEAN, chars |-> the code points]
Utf8Decode(b) ==
    IF b = <<>> THEN [ok |-> TRUE, chars |-> <<>>]
    ELSE IF b[1] < 128
    THEN LET r == Utf8Decode(Tail(b))
         IN [ok |-> r.ok, chars |-> <<b[1]>> \o r.chars]
    ELSE IF b[1] >= 194 /\ b[1] <= 223 /\ Len(b) >= 2 /\ b[2] >= 128 /\ b[2] <= 191
    THEN LET r == Utf8Decode(Tail(Tail(b)))
         IN [ok |-> r.ok, chars |-> <<(b[1] - 192) * 64 + (b[2] - 128)>> \o r.chars]
    ELSE [ok |-> FALSE, chars |-> <<>>]

\* loop(), lines 118-122: the chunk read, decoded to a str when its first byte
\* is neither ESC nor 0x7f nor a control byte and the whole chunk is UTF-8
DecodeChunk(b) ==
    IF b # <<>> /\ b[1] \notin {27, 127} /\ b[1] > 31 /\ Utf8Decode(b).ok
    THEN StrKey(Utf8Decode(b).chars)
    ELSE BytesKey(b)

----------------------------------------------------------------------------
(* The terminal: cursor row, scrolling at the last row, and its answer to   *)
(* the cursor-position query ESC [ 6 n, which is ESC [ row ; col R          *)

RECURSIVE Digits(_)
\* b"%d" % n for n >= 0
Digits(n) == IF n < 10 THEN <<48 + n>> ELSE Digits(n \div 10) \o <<48 + (n % 10)>>

RECURSIVE ParseInt(_)
\* int(digits) for a non-empty run of ASCII digits
ParseInt(d) ==
    IF Len(d) = 1 THEN d[1] - 48
    ELSE 10 * ParseInt(SubSeq(d, 1, Len(d) - 1)) + (d[Len(d)] - 48)

IsDigits(d) == \A k \in 1..Len(d) : d[k] >= 48 /\ d[k] <= 57

\* what the terminal sends back for a cursor at 0-based (r, c)
Response(r, c) == <<ESC, 91>> \o Digits(r + 1) \o <<59>> \o Digits(c + 1) \o <<82>>

\* a cursor-position escape places the cursor inside the screen
TermClamp(r) == Max(0, Min(r, TermRows - 1))

\* n line feeds: the cursor goes down and stays on the last row, where the
\* terminal scrolls instead: every line on the screen moves up by one row
TermNewlines(s, n) ==
    [s EXCEPT !.term_row = Min(s.term_row + n, TermRows - 1),
              !.term_origin = s.term_origin - Max(0, s.term_row + n - (TermRows - 1))]

----------------------------------------------------------------------------
(* TtyController *)

Raise(s, e) == IF s.err = "" THEN [s EXCEPT !.err = e] ELSE s

\* an assignment self.field = v, skipped while an exception unwinds
Set(s, field, v) == IF s.err # "" THEN s ELSE [s EXCEPT ![field] = v]

\* TtyController.goto
goto(s, r, c) ==
    IF s.err # "" THEN s
    ELSE [s EXCEPT !.tty_row = r, !.tty_col = c, !.term_row = TermClamp(r + s.screen_top)]

\* re.match(rb".*\[(?P<y>\d*);(?P<x>\d*)R", sq) for an sq that ends at its
\* first "R": the groups <<y, x>> in a one-element set, or {} for no match
\* ("." matches no line feed)
CursorPosMatch(sq) ==
    { <<SubSeq(sq, pm[1] + 1, pm[2] - 1), SubSeq(sq, pm[2] + 1, Len(sq) - 1)>> :
        pm \in { x \in (1..Len(sq)) \X (1..Len(sq)) :
            /\ x[1] < x[2]
            /\ sq[x[1]] = 91
            /\ \A q \in 1..(x[1] - 1) : sq[q] # 10
            /\ sq[x[2]] = 59
            /\ IsDigits(SubSeq(sq, x[1] + 1, x[2] - 1))
            /\ IsDigits(SubSeq(sq, x[2] + 1, Len(sq) - 1))
            /\ sq[Len(sq)] = 82 } }

\* get_cursor_pos_abs, lines 96-101: the index in the input stream of the first
\* "R" or ETX byte, where the reading stops
FirstStop(stream) ==
    CHOOSE n \in 1..Len(stream) :
        /\ stream[n] \in {82, 3}
        /\ \A q \in 1..(n - 1) : stream[q] \notin {82, 3}

\* get_cursor_pos_abs, lines 102-104: `row, col = res.groups()' and int(row) - 1
\* for the match res; the row is left in s.ret
ParseCursorPos(s, res) ==
    IF res = {} THEN Raise(s, "AttributeError")
    ELSE IF \E g \in res : g[1] = <<>> \/ g[2] = <<>> THEN Raise(s, "ValueError")
    ELSE [s EXCEPT !.ret = ParseInt((CHOOSE g \in res : TRUE)[1]) - 1]

\* get_cursor_pos_abs reading the bytes stream[1..k], one at a time
ReadCursorPos(s, stream, k) ==
    IF stream[k] = 3
    THEN Raise([s EXCEPT !.stdin = Drop(stream, k)], "KeyboardInterrupt")
    ELSE ParseCursorPos([s EXCEPT !.stdin = Drop(stream, k)],
                        CursorPosMatch(Take(stream, k)))

\* the input queue once the terminal, its cursor in column c, has answered the
\* query: the answer stands behind whatever was typed before
AnswerStream(s, c) == s.stdin \o Response(s.term_row, c)

\* TtyController.get_cursor_pos_abs
get_cursor_pos_abs(s, c) ==
    IF s.err # "" THEN s
    ELSE ReadCursorPos(s, AnswerStream(s, c), FirstStop(AnswerStream(s, c)))

\* _update_editor_row_offset after the query: lines 119-120
ApplyRowOffset(q) ==
    IF q.err # "" THEN q
    ELSE [q EXCEPT !.screen_top = q.screen_top + (q.ret - (q.screen_top + q.tty_row))]

\* TtyController._update_editor_row_offset
_update_editor_row_offset(s, c) == ApplyRowOffset(get_cursor_pos_abs(s, c))

\* TuiEditor.total_lines
total_lines(s) == Len(s.content)

\* TuiEditor.actual_height
actual_height(s) == Min(s.height, total_lines(s))

\* the total_height callback given to TtyController
total_height(s) == actual_height(s) + Len(s.status_content)

\* update_occupied_space, lines 138-139
GotoLastReservedRow(s) ==
    IF s.tty_row # s.prev_total_height - 1
    THEN goto(s, s.prev_total_height - 1, 0)
    ELSE s

\* GrowOccupiedSpace without `self.row = total_height - 1': the row expected
\* for the answer to the query is the one recorded before the line feeds
GrowOccupiedSpace_RowNotSet(s, total) ==
    goto(_update_editor_row_offset(
             TermNewlines(GotoLastReservedRow(s), total - s.prev_total_height),
             0),
         s.tty_row, 0)

\* update_occupied_space, lines 137-144: the reserved space grows to total rows
GrowOccupiedSpace(s, total) ==
    goto(_update_editor_row_offset(
             Set(TermNewlines(GotoLastReservedRow(s), total - s.prev_total_height),
                 "tty_row", total - 1),
             0),
         s.tty_row, 0)

\* no growth of the reserved space
NoGrowth == [n |-> 0, total |-> 0, row_before |-> 0, row_after |-> 0,
             screen_top |-> 0, term_origin |-> 0, scrolled |-> 0]

\* the growth to total rows that has led to the state q is kept: the row the
\* controller had recorded before it, the row it has recorded now,
\* screen_top next to the row of the terminal that holds logical row 0, and
\* by how many rows the terminal has scrolled, logical row 0 having been in
\* the row prev_origin
GrowthLogged(q, total, prev_row, prev_origin) ==
    IF q.err # "" THEN q
    ELSE [q EXCEPT !.grown = [n |-> q.grown.n + 1, total |-> total,
                              row_before |-> prev_row, row_after |-> q.tty_row,
                              screen_top |-> q.screen_top,
                              term_origin |-> q.term_origin,
                              scrolled |-> prev_origin - q.term_origin]]

\* TtyController.update_occupied_space
update_occupied_space(s) ==
    IF s.err # "" THEN s
    ELSE IF ~(total_height(s) > 0 /\ s.prev_total_height > 0)
    THEN Raise(s, "AssertionError")
    ELSE IF total_height(s) = s.prev_total_height THEN s
    ELSE IF total_height(s) > s.prev_total_height
    THEN Set(GrowthLogged(GrowOccupiedSpace(s, total_height(s)), total_height(s),
                          s.tty_row, s.term_origin),
             "prev_total_height", total_height(s))
    ELSE Set(s, "prev_total_height", total_height(s))

----------------------------------------------------------------------------
(* TuiEditor: rendering.  Of what is written to the terminal the model      *)
(* keeps the cursor movement; the text drawn is not part of the state.     *)

\* TuiEditor.cur_line_idx
cur_line_idx(s) == s.top_line_idx + s.row

\* a subscript self._content[idx] raises IndexError out of range
ValidIdx(s, idx) == idx >= 0 /\ idx < Len(s.content)

\* the line self._content[idx] (TLA+ sequences start at 1)
Line(s, idx) == s.content[idx + 1]

\* width of the line-number gutter: len(str(self.total_lines)) + 2
Gutter(s) == IF s.show_line_numbers THEN DigitCount(total_lines(s)) + 2 ELSE 0

RECURSIVE ShiftedCol(_, _)
\* `while col >= width - 1: col -= width // 3', for width >= 3
ShiftedCol(c, w) == IF c >= w - 1 THEN ShiftedCol(c - (w \div 3), w) ELSE c

\* TuiEditor.set_cursor
set_cursor(s) ==
    IF s.err # "" THEN s
    ELSE goto(s, s.row, ShiftedCol(s.col + Gutter(s), s.width))

\* _show_content_line, lines 216-223: the characters cut off at the left of
\* the line drawn: width // 3 of them for each turn of the while loop, which
\* is the loop of set_cursor
LineShift(s, line_idx, margin_logic_cur_line) ==
    IF margin_logic_cur_line /\ line_idx = cur_line_idx(s)
    THEN (s.col + Gutter(s)) - ShiftedCol(s.col + Gutter(s), s.width)
    ELSE 0

\* _show_content_line with the terminal cursor in the editor row r: the line
\* is drawn in that row (a row outside the editor's rows is not kept)
ShowAt(s, r, line_idx, margin_logic_cur_line) ==
    IF s.err # "" THEN s
    ELSE IF ~ValidIdx(s, line_idx) THEN Raise(s, "IndexError")
    ELSE IF r >= 0 /\ r < Len(s.drawn)
    THEN [s EXCEPT !.drawn[r + 1] = LineShift(s, line_idx, margin_logic_cur_line)]
    ELSE s

\* TuiEditor._show_content_line, called with the terminal cursor in the row
\* the controller has recorded
_show_content_line(s, line_idx, margin_logic_cur_line) ==
    ShowAt(s, s.tty_row, line_idx, margin_logic_cur_line)

\* update_screen_status, lines 181-185: a line feed between the status lines
StatusRows(s) ==
    IF s.err # "" THEN s
    ELSE TermNewlines(s, Len(s.status_content) - 1)

\* TuiEditor.update_screen_status
update_screen_status(s, with_goto) ==
    IF s.err # "" THEN s
    ELSE IF ~s.initialized THEN Raise(s, "AssertionError")
    ELSE IF with_goto
    THEN set_cursor(StatusRows(update_occupied_space(goto(s, actual_height(s), 0))))
    ELSE StatusRows(s)

RECURSIVE DrawRows(_, _, _)
\* update_screen, lines 153-154 for the rows r .. n-1; the rows from n on
\* hold no content line after it: the status lines are written over them
DrawRows(s, r, n) ==
    IF r >= Len(s.drawn) THEN s
    ELSE IF r >= n THEN DrawRows([s EXCEPT !.drawn[r + 1] = 0], r + 1, n)
    ELSE DrawRows(ShowAt(s, r, s.top_line_idx + r, TRUE), r + 1, n)

\* update_screen, lines 152-158: the rows drawn are those of the lines
\* top_line_idx .. min(top_line_idx + height, total_lines) - 1, each followed
\* by CR LF
ContentRows(s) ==
    IF s.err # "" \/ s.height <= 0 THEN s
    ELSE IF ~ValidIdx(s, s.top_line_idx) THEN Raise(s, "IndexError")
    ELSE TermNewlines(DrawRows(s, 0, Min(s.height, total_lines(s) - s.top_line_idx)),
                      Min(s.height, total_lines(s) - s.top_line_idx))

\* TuiEditor.update_screen
update_screen(s) ==
    IF s.err # "" THEN s
    ELSE IF ~s.initialized THEN Raise(s, "AssertionError")
    ELSE set_cursor(update_screen_status(ContentRows(goto(s, 0, 0)), FALSE))

\* TuiEditor.update_line
update_line(s, margin_logic_cur_line) ==
    set_cursor(_show_content_line(s, cur_line_idx(s), margin_logic_cur_line))

\* _maybe_update_line_after_cursor_change, lines 204-211
UpdateLongLine(s, is_old_line) ==
    IF s.err # "" THEN s
    ELSE IF ~ValidIdx(s, cur_line_idx(s)) THEN Raise(s, "IndexError")
    ELSE IF Len(Line(s, cur_line_idx(s))) >= s.width - Gutter(s)
    THEN update_line(s, ~is_old_line)
    ELSE s

\* TuiEditor._maybe_update_line_after_cursor_change
_maybe_update_line_after_cursor_change(s, is_old_line) ==
    UpdateLongLine(set_cursor(s), is_old_line)

\* adjust_cursor_eol without the clamp: col stays whatever the line holds
adjust_cursor_eol_NoClamp(s) ==
    IF s.err # "" THEN s
    ELSE IF ~ValidIdx(s, cur_line_idx(s)) THEN Raise(s, "IndexError")
    ELSE s

\* TuiEditor.adjust_cursor_eol
adjust_cursor_eol(s) ==
    IF s.err # "" THEN s
    ELSE IF ~ValidIdx(s, cur_line_idx(s)) THEN Raise(s, "IndexError")
    ELSE IF s.col > Len(Line(s, cur_line_idx(s)))
    THEN [s EXCEPT !.col = Len(Line(s, cur_line_idx(s)))]
    ELSE s

\* `if update: self.update_screen()'
MaybeUpdateScreen(s, update) == IF update THEN update_screen(s) ELSE s

\* `if update: self._maybe_update_line_after_cursor_change()'
MaybeUpdateLine(s, update) ==
    IF update THEN _maybe_update_line_after_cursor_change(s, FALSE) ELSE s

\* _move_cursor_next_line, lines 241-252
NextLine(s, update) ==
    IF s.err # "" THEN s
    ELSE IF s.row + 1 = s.height
    THEN MaybeUpdateScreen(
             adjust_cursor_eol([s EXCEPT !.top_line_idx = s.top_line_idx + 1]), update)
    ELSE MaybeUpdateLine(adjust_cursor_eol([s EXCEPT !.row = s.row + 1]), update)

\* TuiEditor._move_cursor_next_line
_move_cursor_next_line(s, update) ==
    NextLine(_maybe_update_line_after_cursor_change(s, TRUE), update)

\* _move_cursor_prev_line, lines 256-269
PrevLine(s, update) ==
    IF s.err # "" THEN s
    ELSE IF s.row = 0
    THEN IF s.top_line_idx > 0
         THEN MaybeUpdateScreen(
                  adjust_cursor_eol([s EXCEPT !.top_line_idx = s.top_line_idx - 1]), update)
         ELSE s
    ELSE MaybeUpdateLine(adjust_cursor_eol([s EXCEPT !.row = s.row - 1]), update)

\* TuiEditor._move_cursor_prev_line
_move_cursor_prev_line(s, update) ==
    PrevLine(_maybe_update_line_after_cursor_change(s, TRUE), update)

----------------------------------------------------------------------------
(* TuiEditor: the key handlers *)

\* the keys for which handle_cursor_keys returns True
IsCursorKey(key) ==
    key.t = "int" /\ key.v[1] \in {KEY_UP, KEY_DOWN, KEY_LEFT, KEY_RIGHT,
                                   KEY_HOME, KEY_END, KEY_PGUP, KEY_PGDN}

\* handle_cursor_keys, lines 306-311: the viewport after KEY_PGUP
PageUpViewport(s) ==
    IF s.top_line_idx - s.height < 0
    THEN [s EXCEPT !.top_line_idx = 0, !.row = 0]
    ELSE IF s.top_line_idx - s.height + s.row < 0
    THEN [s EXCEPT !.top_line_idx = s.top_line_idx - s.height, !.row = 0]
    ELSE [s EXCEPT !.top_line_idx = s.top_line_idx - s.height]

\* handle_cursor_keys, lines 315-322: the viewport after KEY_PGDN
PageDownViewport(s) ==
    IF s.top_line_idx + s.height + s.row >= total_lines(s)
    THEN IF total_lines(s) - s.height >= 0
         THEN [s EXCEPT !.top_line_idx = total_lines(s) - s.height, !.row = s.height - 1]
         ELSE [s EXCEPT !.top_line_idx = 0, !.row = 0 + s.row]
    ELSE [s EXCEPT !.top_line_idx = s.top_line_idx + s.height]

\* Left that goes to the line before without going to its end
Left_KeepsCol(s) ==
    IF s.col > 0
    THEN _maybe_update_line_after_cursor_change([s EXCEPT !.col = s.col - 1], FALSE)
    ELSE IF cur_line_idx(s) > 0
    THEN _move_cursor_prev_line(s, TRUE)
    ELSE s

\* handle_cursor_keys, KEY_LEFT branch
Left(s) ==
    IF s.col > 0
    THEN _maybe_update_line_after_cursor_change([s EXCEPT !.col = s.col - 1], FALSE)
    ELSE IF cur_line_idx(s) > 0
    THEN IF ~ValidIdx(s, cur_line_idx(s) - 1) THEN Raise(s, "IndexError")
         ELSE _move_cursor_prev_line(
                  [s EXCEPT !.col = Len(Line(s, cur_line_idx(s) - 1))], TRUE)
    ELSE s

\* Right that goes back to the start of the line at the end of the last line
Right_Wraps(s) ==
    IF ~ValidIdx(s, cur_line_idx(s)) THEN Raise(s, "IndexError")
    ELSE IF s.col < Len(Line(s, cur_line_idx(s)))
    THEN _maybe_update_line_after_cursor_change([s EXCEPT !.col = s.col + 1], FALSE)
    ELSE IF cur_line_idx(s) < Len(s.content) - 1
    THEN _move_cursor_next_line([s EXCEPT !.col = 0], TRUE)
    ELSE _maybe_update_line_after_cursor_change([s EXCEPT !.col = 0], FALSE)

\* handle_cursor_keys, KEY_RIGHT branch
Right(s) ==
    IF ~ValidIdx(s, cur_line_idx(s)) THEN Raise(s, "IndexError")
    ELSE IF s.col < Len(Line(s, cur_line_idx(s)))
    THEN _maybe_update_line_after_cursor_change([s EXCEPT !.col = s.col + 1], FALSE)
    ELSE IF cur_line_idx(s) < Len(s.content) - 1
    THEN _move_cursor_next_line([s EXCEPT !.col = 0], TRUE)
    ELSE s

\* handle_cursor_keys, KEY_END branch
End(s) ==
    IF ~ValidIdx(s, cur_line_idx(s)) THEN Raise(s, "IndexError")
    ELSE _maybe_update_line_after_cursor_change(
             [s EXCEPT !.col = Len(Line(s, cur_line_idx(s)))], FALSE)

\* TuiEditor.handle_cursor_keys, for a key with IsCursorKey(key)
handle_cursor_keys(s, key) ==
    CASE key.v[1] = KEY_DOWN ->
           IF cur_line_idx(s) + 1 # total_lines(s)
           THEN _move_cursor_next_line(s, TRUE) ELSE s
      [] key.v[1] = KEY_UP ->
           IF cur_line_idx(s) > 0 THEN _move_cursor_prev_line(s, TRUE) ELSE s
      [] key.v[1] = KEY_LEFT -> Left(s)
      [] key.v[1] = KEY_RIGHT -> Right(s)
      [] key.v[1] = KEY_HOME ->
           _maybe_update_line_after_cursor_change([s EXCEPT !.col = 0], FALSE)
      [] key.v[1] = KEY_END -> End(s)
      [] key.v[1] = KEY_PGUP -> update_screen(adjust_cursor_eol(PageUpViewport(s)))
      [] key.v[1] = KEY_PGDN -> update_screen(adjust_cursor_eol(PageDownViewport(s)))

\* what a hook finds when it is called: the text, the cursor and the viewport,
\* the row the terminal cursor was left in, and the lines on the screen
HookView(s) ==
    [content |-> s.content, top_line_idx |-> s.top_line_idx, row |-> s.row,
     col |-> s.col, tty_row |-> s.tty_row, drawn |-> s.drawn]

\* no hook was called
NotSeen ==
    [content |-> <<>>, top_line_idx |-> 0, row |-> 0, col |-> 0, tty_row |-> 0,
     drawn |-> <<>>]

\* TuiEditor.on_edit: the hook is counted, and what it finds is kept
on_edit(s) ==
    IF s.err # "" THEN s
    ELSE [s EXCEPT !.on_edit = s.on_edit + 1, !.seen = HookView(s)]

\* SplitLine without the cut of the current line: the rest of the line is
\* copied to the new line and stays in the old one too
SplitLine_KeepsRest(s) ==
    [s EXCEPT
        !.content = ListInsert(s.content, cur_line_idx(s) + 1,
                               Drop(Line(s, cur_line_idx(s)), s.col)),
        !.col = 0]

\* handle_key, lines 336-338: the line is cut at the cursor, the rest becomes
\* the next line
SplitLine(s) ==
    [s EXCEPT
        !.content = ListInsert(
            [s.content EXCEPT ![cur_line_idx(s) + 1] = Take(Line(s, cur_line_idx(s)), s.col)],
            cur_line_idx(s) + 1,
            Drop(Line(s, cur_line_idx(s)), s.col)),
        !.col = 0]

\* TuiEditor.handle_key, KEY_ENTER branch
Enter(s) ==
    update_screen(update_occupied_space(_move_cursor_next_line(SplitLine(s), FALSE)))

\* handle_key, lines 344-346: the character before the cursor is removed
RemoveBefore(s) ==
    [s EXCEPT
        !.col = s.col - 1,
        !.content[cur_line_idx(s) + 1] =
            Take(Line(s, cur_line_idx(s)), s.col - 1) \o Drop(Line(s, cur_line_idx(s)), s.col)]

\* handle_key, lines 349-351: the line is appended to the one before it
JoinWithPrev(s) ==
    [s EXCEPT
        !.col = Len(Line(s, cur_line_idx(s) - 1)),
        !.content = ListPop(
            [s.content EXCEPT ![cur_line_idx(s)] =
                Line(s, cur_line_idx(s) - 1) \o Line(s, cur_line_idx(s))],
            cur_line_idx(s))]

\* BackspaceViewport without the scrolling branch: only the row moves up
BackspaceViewport_RowOnly(s) ==
    IF s.row > 0 THEN [s EXCEPT !.row = s.row - 1] ELSE s

\* handle_key, lines 352-355: the viewport after a line was removed by Backspace
BackspaceViewport(s) ==
    IF s.top_line_idx > 0 /\ s.top_line_idx + s.height > Len(s.content)
    THEN [s EXCEPT !.top_line_idx = s.top_line_idx - 1]
    ELSE IF s.row > 0 THEN [s EXCEPT !.row = s.row - 1]
    ELSE s

\* TuiEditor.handle_key, KEY_BACKSPACE branch
Backspace(s) ==
    IF s.col > 0 THEN update_line(RemoveBefore(s), TRUE)
    ELSE IF s.col = 0 /\ cur_line_idx(s) > 0
    THEN update_screen(update_occupied_space(BackspaceViewport(JoinWithPrev(s))))
    ELSE s

\* handle_key, lines 360-361: the character at the cursor is removed
RemoveAt(s) ==
    [s EXCEPT !.content[cur_line_idx(s) + 1] =
        Take(Line(s, cur_line_idx(s)), s.col) \o Drop(Line(s, cur_line_idx(s)), s.col + 1)]

\* JoinWithNext without the concatenation: the next line is removed and its
\* text is lost
JoinWithNext_DropsText(s) ==
    [s EXCEPT !.content = ListPop(s.content, cur_line_idx(s) + 1)]

\* handle_key, lines 364-365: the next line is appended to the current one
JoinWithNext(s) ==
    [s EXCEPT !.content = ListPop(
        [s.content EXCEPT ![cur_line_idx(s) + 1] =
            Line(s, cur_line_idx(s)) \o Line(s, cur_line_idx(s) + 1)],
        cur_line_idx(s) + 1)]

\* TuiEditor.handle_key, KEY_DELETE branch
Delete(s) ==
    IF s.col < Len(Line(s, cur_line_idx(s))) THEN update_line(RemoveAt(s), TRUE)
    ELSE IF s.col = Len(Line(s, cur_line_idx(s))) /\ cur_line_idx(s) < Len(s.content) - 1
    THEN update_screen(update_occupied_space(JoinWithNext(s)))
    ELSE s

\* InsertAt with the character put at the end of the line instead of at the
\* cursor
InsertAt_Append(s, key) ==
    [s EXCEPT
        !.content[cur_line_idx(s) + 1] = Line(s, cur_line_idx(s)) \o key.v,
        !.col = s.col + 1]

\* handle_key, lines 375-377: the character is put in at the cursor
InsertAt(s, key) ==
    [s EXCEPT
        !.content[cur_line_idx(s) + 1] =
            Take(Line(s, cur_line_idx(s)), s.col) \o key.v \o Drop(Line(s, cur_line_idx(s)), s.col),
        !.col = s.col + 1]

\* TuiEditor.handle_key, the str branch
Insert(s, key) == update_line(InsertAt(s, key), TRUE)

\* handle_key with a Delete branch that returns when it is done, so that
\* on_edit is not called after Delete
handle_key_DeleteReturns(s, key) ==
    IF ~ValidIdx(s, cur_line_idx(s)) THEN Raise(s, "IndexError")
    ELSE IF key = IntKey(KEY_ENTER) THEN on_edit(Enter(s))
    ELSE IF key = IntKey(KEY_BACKSPACE) THEN on_edit(Backspace(s))
    ELSE IF key = IntKey(KEY_DELETE) THEN Delete(s)
    ELSE IF key.t = "int" THEN s
    ELSE IF key.t = "bytes" /\ key.v[1] = ESC THEN s
    ELSE IF Len(key.v) = 1 /\ key.v[1] <= 31 THEN s
    ELSE IF key.t = "str" THEN on_edit(Insert(s, key))
    ELSE on_edit(s)

\* handle_key without the isinstance(key, str) test of its last branch: a
\* byte that is no text is put into the line as if it were a character
handle_key_InsertsBytes(s, key) ==
    IF ~ValidIdx(s, cur_line_idx(s)) THEN Raise(s, "IndexError")
    ELSE IF key = IntKey(KEY_ENTER) THEN on_edit(Enter(s))
    ELSE IF key = IntKey(KEY_BACKSPACE) THEN on_edit(Backspace(s))
    ELSE IF key = IntKey(KEY_DELETE) THEN on_edit(Delete(s))
    ELSE IF key.t = "int" THEN s
    ELSE IF key.t = "bytes" /\ key.v[1] = ESC THEN s
    ELSE IF Len(key.v) = 1 /\ key.v[1] <= 31 THEN s
    ELSE on_edit(Insert(s, key))

\* TuiEditor.handle_key
handle_key(s, key) ==
    IF ~ValidIdx(s, cur_line_idx(s)) THEN Raise(s, "IndexError")
    ELSE IF key = IntKey(KEY_ENTER) THEN on_edit(Enter(s))
    ELSE IF key = IntKey(KEY_BACKSPACE) THEN on_edit(Backspace(s))
    ELSE IF key = IntKey(KEY_DELETE) THEN on_edit(Delete(s))
    ELSE IF key.t = "int" THEN s
    ELSE IF key.t = "bytes" /\ key.v[1] = ESC THEN s
    ELSE IF Len(key.v) = 1 /\ key.v[1] <= 31 THEN s
    ELSE IF key.t = "str" THEN on_edit(Insert(s, key))
    ELSE on_edit(s)

----------------------------------------------------------------------------
(* The state as the record the handlers work on, and back *)

St ==
    [content |-> content, top_line_idx |-> top_line_idx, row |-> row, col |-> col,
     height |-> height, show_line_numbers |-> show_line_numbers,
     status_content |-> status_content,
     tty_row |-> tty_row, tty_col |-> tty_col, screen_top |-> screen_top,
     prev_total_height |-> prev_total_height, width |-> width,
     initialized |-> initialized,
     orig_termios |-> orig_termios, orig_sig_win_ch |-> orig_sig_win_ch,
     termios |-> termios, sig_win_ch |-> sig_win_ch,
     term_row |-> term_row, term_origin |-> term_origin, stdin |-> stdin,
     drawn |-> drawn, grown |-> NoGrowth,
     err |-> "", ret |-> 0, on_edit |-> 0, seen |-> NotSeen]

Store(s) ==
    /\ content' = s.content
    /\ top_line_idx' = s.top_line_idx
    /\ row' = s.row
    /\ col' = s.col
    /\ status_content' = s.status_content
    /\ tty_row' = s.tty_row
    /\ tty_col' = s.tty_col
    /\ screen_top' = s.screen_top
    /\ prev_total_height' = s.prev_total_height
    /\ width' = s.width
    /\ initialized' = s.initialized
    /\ orig_termios' = s.orig_termios
    /\ orig_sig_win_ch' = s.orig_sig_win_ch
    /\ termios' = s.termios
    /\ sig_win_ch' = s.sig_win_ch
    /\ term_row' = s.term_row
    /\ term_origin' = s.term_origin
    /\ grown' = s.grown
    /\ stdin' = s.stdin
    /\ drawn' = s.drawn
    /\ UNCHANGED <<height, show_line_numbers, control_key_abort, control_key_quit>>

\* the cursor before an operation, kept in `last'
Pre == [line |-> top_line_idx + row, col |-> col, lines |-> Len(content)]

----------------------------------------------------------------------------
(* TuiEditor.edit: init_tty, update_screen, loop, and deinit_tty at the end *)

\* init_tty, lines 58-59
InstallOnResize(s) ==
    IF s.err # "" THEN s
    ELSE [s EXCEPT !.orig_sig_win_ch = s.sig_win_ch, !.sig_win_ch = "_on_resize"]

\* TtyController.init_tty.  tty.setraw sets the attributes with TCSAFLUSH,
\* which discards the input not yet read; typed is what the user types from
\* then until the answer to the first cursor-position query is read
init_tty(s, typed) ==
    InstallOnResize(update_occupied_space(
        [s EXCEPT !.orig_termios = s.termios, !.termios = "raw", !.initialized = TRUE,
                  !.stdin = typed]))

\* deinit_tty without the tcsetattr call: the terminal stays in raw mode
deinit_tty_KeepsRaw(s) ==
    [goto([s EXCEPT !.err = ""], 0, 0) EXCEPT
        !.sig_win_ch = s.orig_sig_win_ch,
        !.initialized = FALSE,
        !.err = s.err]

\* TtyController.deinit_tty(clear_editor=True); as the finally clause of edit()
\* it also runs while an exception, kept in err, is on its way to the caller
deinit_tty(s) ==
    [goto([s EXCEPT !.err = ""], 0, 0) EXCEPT
        !.termios = s.orig_termios,
        !.sig_win_ch = s.orig_sig_win_ch,
        !.initialized = FALSE,
        !.err = s.err]

NoSnapshot == [content |-> <<>>, line |-> 0, col |-> 0]

\* edit() has ended with the state s: by a return, or by the exception s.err
Ended(s) ==
    /\ Store(s)
    /\ pc' = IF s.err = "" THEN "returned" ELSE "raised"
    /\ exc' = s.err
    /\ buf' = BytesKey(<<>>)
    /\ i' = 0
    /\ at_read' = NoSnapshot

\* edit(), lines 46-50, up to the first read of loop(): s is the state
\* after update_screen()
EnterLoop(s) ==
    IF s.err # "" THEN Ended(deinit_tty(s))
    ELSE /\ Store(s)
         /\ pc' = "reading"
         /\ UNCHANGED <<exc, buf, i, at_read>>

\* edit(), lines 45-47: s is the state after init_tty(), which is outside the
\* try block
EnterTry(s) ==
    IF s.err # "" THEN Ended(s)
    ELSE EnterLoop(update_screen(s))

\* bytes typed while init_tty runs, after the terminal has answered its query:
\* they wait on fd_in for the first os.read of loop()
TypedLate(s, late) ==
    IF s.err # "" THEN s ELSE [s EXCEPT !.stdin = s.stdin \o late]

\* the host calls edit(): init_tty() and update_screen() up to the first read
EditEnter(typed, late) ==
    /\ pc = "idle"
    /\ EnterTry(TypedLate(init_tty(St, typed), late))
    /\ hooked' = FALSE
    /\ last' = [op |-> "edit", typed |-> typed]

----------------------------------------------------------------------------
(* TuiEditor.loop *)

\* os.read(self.tty.fd_in, 32)
ReadSize == 32

\* `isinstance(buf, bytes) and buf[0] == 0x1b': the whole chunk is one key
WholeChunk(b) == b.t = "bytes" /\ b.v # <<>> /\ b.v[1] = ESC

\* the key taken from buf at index idx, before the KEYMAP lookup (lines 126-131)
Unit(b, idx) == IF WholeChunk(b) THEN b ELSE [t |-> b.t, v |-> <<b.v[idx + 1]>>]

\* the index after that key
NextIdx(b, idx) == IF WholeChunk(b) THEN Len(b.v) ELSE idx + 1

\* the key of this iteration: lines 126-133
KeyAt(b, idx) == KEYMAP(Unit(b, idx))

\* the bounds of the model: no character and no line is added beyond them,
\* and col, which a character typed increases whatever the line holds, does
\* not grow beyond them either
Fits(s, key) ==
    /\ key = IntKey(KEY_ENTER) => Len(s.content) < MaxLines
    /\ (key.t = "str" /\ key.v[1] > 31)
         => TotalChars(s.content) < MaxChars /\ s.col <= MaxChars

\* handle_cursor_keys(key) or, when it returns False, handle_key(key)
Handle(s, key) ==
    IF IsCursorKey(key) THEN handle_cursor_keys(s, key) ELSE handle_key(s, key)

\* while a chunk of several keys is being handled: the text and the cursor as
\* they were when the chunk was read
AtRead == IF i < Len(buf.v) THEN at_read
          ELSE [content |-> content, line |-> top_line_idx + row, col |-> col]

\* the inner while loop goes on with the chunk b at index nxt; buf is dead
\* once its last key is taken, and is reset here
GoesOn(b, nxt) ==
    /\ pc' = pc
    /\ exc' = exc
    /\ buf' = IF nxt >= Len(b.v) THEN BytesKey(<<>>) ELSE b
    /\ i' = IF nxt >= Len(b.v) THEN 0 ELSE nxt
    /\ at_read' = IF nxt >= Len(b.v) THEN NoSnapshot ELSE AtRead

\* what is kept of the key handled: the key, the bytes or character it was
\* taken from (unit), its index in the chunk, how many keys of the chunk come
\* after it (rest), what on_key returned for it, the cursor before it, how
\* often the hooks on_edit and on_cursor_pos_change were called for it, and
\* what on_edit found
KeyLog(b, idx, consumed, edits, moves, seen) ==
    [op |-> "key", key |-> KeyAt(b, idx), unit |-> Unit(b, idx), idx |-> idx,
     rest |-> Len(b.v) - NextIdx(b, idx), consumed |-> consumed, pre |-> Pre,
     on_edit |-> edits, on_cursor_pos_change |-> moves, seen |-> seen]

\* lines 140-144 with s1 the state after the handler
Handled(s1, b, idx) ==
    /\ IF s1.err # "" THEN Ended(deinit_tty(s1))
       ELSE Store(s1) /\ GoesOn(b, NextIdx(b, idx))
    /\ last' = KeyLog(b, idx, FALSE, s1.on_edit, IF s1.err = "" THEN 1 ELSE 0, s1.seen)

\* lines 134-139 with the hook on_key first: it is asked before the abort and
\* quit keys are looked at
Outcome_KeysFirst(s, key, consume) ==
    IF key = control_key_abort THEN "abort"
    ELSE IF key = control_key_quit THEN "quit"
    ELSE IF consume THEN "continue"
    ELSE "handle"

\* lines 134-143: what the loop does with the key, consume being what the
\* hook on_key returns
Outcome(s, key, consume) ==
    IF consume THEN "continue"
    ELSE IF key = control_key_abort THEN "abort"
    ELSE IF key = control_key_quit THEN "quit"
    ELSE "handle"

\* one iteration of the inner while loop (lines 125-144) on the chunk b at
\* index idx, with the state s; consume is what the on_key hook returns
Iteration(s, b, idx, consume) ==
    /\ hooked' = TRUE
    /\ IF Outcome(s, KeyAt(b, idx), consume) = "continue"
       THEN /\ Store(s)
            /\ GoesOn(b, NextIdx(b, idx))
            /\ last' = KeyLog(b, idx, TRUE, 0, 0, NotSeen)
       ELSE IF Outcome(s, KeyAt(b, idx), consume) = "abort"
       THEN /\ Ended(deinit_tty(Raise(s, "KeyboardInterrupt")))
            /\ last' = KeyLog(b, idx, consume, 0, 0, NotSeen)
       ELSE IF Outcome(s, KeyAt(b, idx), consume) = "quit"
       THEN /\ Ended(deinit_tty(s))
            /\ last' = KeyLog(b, idx, consume, 0, 0, NotSeen)
       ELSE /\ Fits(s, KeyAt(b, idx))
            /\ Handled(Handle(s, KeyAt(b, idx)), b, idx)

\* the loop is blocked in os.read with nothing typed ahead; the bytes of
\* chunk arrive together, are read, and the first key of them is handled
ReadKey(chunk, consume) ==
    /\ pc = "reading"
    /\ i = Len(buf.v)
    /\ stdin = <<>>
    /\ Iteration(St, DecodeChunk(chunk), 0, consume)

\* os.read returns what was typed ahead, and its first key is handled
ReadPending(consume) ==
    /\ pc = "reading"
    /\ i = Len(buf.v)
    /\ stdin # <<>>
    /\ Iteration([St EXCEPT !.stdin = Drop(stdin, ReadSize)],
                 DecodeChunk(Take(stdin, ReadSize)), 0, consume)

\* the next key of the chunk read is handled
NextKey(consume) ==
    /\ pc = "reading"
    /\ i < Len(buf.v)
    /\ Iteration(St, buf, i, consume)

\* _on_resize, lines 51-56, with the terminal now w columns wide
on_resize(s, w) ==
    update_screen(Set(_update_editor_row_offset(s, s.tty_col), "width", w))

\* the terminal is resized while edit() runs: SIGWINCH interrupts the loop,
\* between two keys of a chunk or in os.read, and _on_resize runs; an
\* exception it raises goes through loop() to the finally clause of edit()
Resize(w) ==
    /\ pc = "reading"
    /\ sig_win_ch = "_on_resize"
    /\ IF on_resize(St, w).err # ""
       THEN Ended(deinit_tty(on_resize(St, w)))
       ELSE /\ Store(on_resize(St, w))
            /\ UNCHANGED <<pc, exc, buf, i, at_read>>
    /\ hooked' = hooked
    /\ last' = [op |-> "resize", width |-> w]

\* the user types while the keys of a chunk are being handled: the bytes wait
\* in the input queue of the terminal for the next os.read
TypeAhead(bytes, max) ==
    /\ pc = "reading"
    /\ i < Len(buf.v)
    /\ Len(stdin) + Len(bytes) <= max
    /\ stdin' = stdin \o bytes
    /\ last' = [op |-> "typed", bytes |-> bytes]
    /\ UNCHANGED <<content, top_line_idx, row, col, height, show_line_numbers,
                   status_content, control_key_abort, control_key_quit,
                   tty_row, tty_col, screen_top, prev_total_height, width,
                   initialized, orig_termios, orig_sig_win_ch, termios, sig_win_ch,
                   term_row, term_origin, pc, exc, buf, i, hooked, drawn, grown,
                   at_read>>

----------------------------------------------------------------------------
(* The text API, called by the host before and after edit(), or from a     *)
(* hook while the loop runs                                                *)

\* set_text_lines without the `or [""]': an empty list is kept as it is
set_text_lines_NoDefault(s, lines) ==
    IF s.initialized THEN update_screen([s EXCEPT !.content = lines])
    ELSE [s EXCEPT !.content = lines]

\* TuiEditor.set_text_lines
set_text_lines(s, lines) ==
    IF s.initialized
    THEN update_screen([s EXCEPT !.content = IF lines = <<>> THEN << <<>> >> ELSE lines])
    ELSE [s EXCEPT !.content = IF lines = <<>> THEN << <<>> >> ELSE lines]

\* TuiEditor.set_text
set_text(s, text) == set_text_lines(s, Split(text))

\* TuiEditor.get_text_lines
get_text_lines == content

\* TuiEditor.get_text
get_text == Join(content)

\* set_status_lines that draws the status lines without update_occupied_space:
\* the rows reserved stay as they were
set_status_lines_NoResize(s, lines) ==
    IF s.initialized
    THEN set_cursor(StatusRows(goto(
             [s EXCEPT !.status_content = IF lines = <<>> THEN << <<>> >> ELSE lines],
             actual_height(s), 0)))
    ELSE [s EXCEPT !.status_content = IF lines = <<>> THEN << <<>> >> ELSE lines]

\* TuiEditor.set_status_lines
set_status_lines(s, lines) ==
    IF s.initialized
    THEN update_screen_status(
             [s EXCEPT !.status_content = IF lines = <<>> THEN << <<>> >> ELSE lines],
             TRUE)
    ELSE [s EXCEPT !.status_content = IF lines = <<>> THEN << <<>> >> ELSE lines]

\* where the API can be called: outside edit(), or in a hook of the loop
ApiCallable ==
    \/ pc \in {"idle", "returned", "raised"}
    \/ pc = "reading" /\ hooked

\* an API call has ended with the state s.  An exception raised in a hook
\* leaves edit() through its finally clause; outside edit() it goes to the host
ApiCalled(s) ==
    /\ IF pc = "reading" /\ s.err # "" THEN Ended(deinit_tty(s))
       ELSE /\ Store(s)
            /\ exc' = IF pc = "reading" THEN exc ELSE s.err
            /\ UNCHANGED <<pc, buf, i, at_read>>
    /\ hooked' = hooked

SetTextLines(lines) ==
    /\ ApiCallable
    /\ ApiCalled(set_text_lines(St, lines))
    /\ last' = [op |-> "set_text_lines", arg |-> lines, pc |-> pc]

SetText(text) ==
    /\ ApiCallable
    /\ ApiCalled(set_text(St, text))
    /\ last' = [op |-> "set_text", arg |-> text, pc |-> pc]

SetStatusLines(lines) ==
    /\ ApiCallable
    /\ ApiCalled(set_status_lines(St, lines))
    /\ last' = [op |-> "set_status_lines", arg |-> lines, pc |-> pc,
                was |-> Len(status_content)]

----------------------------------------------------------------------------
(* The state after TuiEditor() and the host's configuration of it *)

TermCols == 4      \* columns of the terminal

\* TuiEditor.__init__ and TtyController.__init__, with the height set by the
\* host from heights, on a terminal whose cursor is in a row of rows; aborts
\* and quits are the letters given as control_key_abort and control_key_quit
Configured(heights, gutters, rows, aborts, quits, widths) ==
    /\ content = << <<>> >>
    /\ top_line_idx = 0
    /\ row = 0
    /\ col = 0
    /\ height \in heights
    /\ show_line_numbers \in gutters
    /\ status_content = << <<>> >>
    /\ control_key_abort \in {_control_key(letter) : letter \in aborts}
    /\ control_key_quit \in {_control_key(letter) : letter \in quits}
    /\ tty_row = 0
    /\ tty_col = 0
    /\ screen_top = 0
    /\ prev_total_height = 1
    /\ width \in widths
    /\ initialized = FALSE
    /\ orig_termios = "None"
    /\ orig_sig_win_ch = "None"
    /\ termios = "cooked"
    /\ sig_win_ch = "host"
    /\ term_row \in rows
    /\ term_origin = term_row
    /\ grown = NoGrowth
    /\ stdin = <<>>
    /\ pc = "idle"
    /\ exc = ""
    /\ buf = BytesKey(<<>>)
    /\ i = 0
    /\ hooked = FALSE
    /\ drawn = [r \in 1..height |-> 0]
    /\ last = [op |-> "none"]
    /\ at_read = NoSnapshot

\* the same with the default keys, Ctrl+C to abort and Ctrl+S to quit, on a
\* terminal of TermCols columns
Constructed(heights, gutters, rows) ==
    Configured(heights, gutters, rows, {67}, {83}, {TermCols})

----------------------------------------------------------------------------
(* The editor under key input: the default hooks, nothing typed ahead *)

\* one chunk for each key of KEYMAP's range, the printable characters, and
\* one chunk of two characters
KeyChunks ==
    { <<27, 91, 65>>, <<27, 91, 66>>, <<27, 91, 68>>, <<27, 91, 67>>,
      <<27, 79, 72>>, <<27, 79, 70>>, <<27, 91, 53, 126>>, <<27, 91, 54, 126>>,
      <<13>>, <<127>>, <<27, 91, 51, 126>>,
      <<97>>, <<98>>, <<97, 98>> }

Init == Constructed(1..MaxHeight, {FALSE}, {0})

Next ==
    \/ EditEnter(<<>>, <<>>)
    \/ \E chunk \in KeyChunks : ReadKey(chunk, FALSE)
    \/ NextKey(FALSE)

Spec == Init /\ [][Next]_vars

----------------------------------------------------------------------------
(* The editor under keys the key table does not hold: control bytes, escape *)
(* sequences, bytes that are not UTF-8, next to the keys that edit          *)

\* Tab, Ctrl+A, ESC alone, ESC [ Z, the byte 0xff, a letter before 0xff, a
\* letter before Tab, a letter after Ctrl+A, a lead byte of UTF-8 without its
\* second byte; and a letter, Enter, Backspace, Delete, Up, Left
RawChunks ==
    { <<9>>, <<1>>, <<27>>, <<27, 91, 90>>, <<255>>, <<97, 255>>, <<97, 9>>,
      <<1, 97>>, <<195>>,
      <<97>>, <<13>>, <<127>>, <<27, 91, 51, 126>>, <<27, 91, 65>>, <<27, 91, 68>> }

NextRaw ==
    \/ EditEnter(<<>>, <<>>)
    \/ \E chunk \in RawChunks : ReadKey(chunk, FALSE)
    \/ NextKey(FALSE)

SpecRaw == Init /\ [][NextRaw]_vars

----------------------------------------------------------------------------
(* Properties.  In the action properties below the unprimed variables are   *)
(* the state before a key is handled and the primed ones the state after.  *)

CurLineIdx == top_line_idx + row
CurLine == content[CurLineIdx + 1]

\* this step is the handling of the key k, not consumed by on_key, with the
\* loop going on after it
KeyStep(k) ==
    /\ pc = "reading"
    /\ pc' = "reading"
    /\ last'.op = "key"
    /\ last'.key = k
    /\ ~last'.consumed

\* the last step handled the key k, with the loop going on after it
KeyDone(k) ==
    /\ pc = "reading"
    /\ last.op = "key"
    /\ last.key = k
    /\ ~last.consumed

\* C1: after any sequence of key events handled by the loop, the cursor
\* column lies within the current line: 0 <= col <= len(content[top_line_idx + row])
C1_ColInLine ==
    /\ CurLineIdx >= 0
    /\ CurLineIdx < Len(content)
    /\ 0 <= col
    /\ col <= Len(CurLine)

\* C3: after any sequence of key events from the constructed state the
\* viewport satisfies 0 <= row < min(height, total_lines), top_line_idx >= 0,
\* and top_line_idx + row is the index of a line of the buffer
C3_Viewport ==
    /\ 0 <= row
    /\ row < Min(height, Len(content))
    /\ top_line_idx >= 0
    /\ top_line_idx + row < Len(content)

\* C3, witness: a key was handled with the viewport scrolled down and the
\* cursor on its last row
C3_Witness ==
    /\ last.op = "key"
    /\ pc = "reading"
    /\ top_line_idx > 0
    /\ row = height - 1
    /\ height > 1

\* C4: Backspace with col == 0 on a line L > 0 appends line L to line L-1,
\* removes line L, and leaves the cursor at line L-1 with col equal to the
\* former length of line L-1, whatever the viewport is
C4_BackspaceJoinsLines ==
    [][ (KeyStep(IntKey(KEY_BACKSPACE)) /\ col = 0 /\ CurLineIdx > 0)
        => /\ content' = Take(content, CurLineIdx - 1)
                         \o << content[CurLineIdx] \o content[CurLineIdx + 1] >>
                         \o Drop(content, CurLineIdx + 1)
           /\ top_line_idx' + row' = CurLineIdx - 1
           /\ col' = Len(content[CurLineIdx]) ]_vars

\* C5: Enter at the cursor (L, c) cuts line L to its first c characters, puts
\* the rest in a new line at L+1, leaves the other lines as they are, and
\* moves the cursor to (L+1, 0): top_line_idx advances when the cursor row was
\* the last row of the viewport, and row advances otherwise
C5_EnterSplitsLine ==
    [][ KeyStep(IntKey(KEY_ENTER))
        => /\ content' = Take(content, CurLineIdx)
                         \o << Take(CurLine, col), Drop(CurLine, col) >>
                         \o Drop(content, CurLineIdx + 1)
           /\ top_line_idx' + row' = CurLineIdx + 1
           /\ col' = 0
           /\ IF row + 1 = height
              THEN top_line_idx' = top_line_idx + 1 /\ row' = row
              ELSE top_line_idx' = top_line_idx /\ row' = row + 1 ]_vars

\* C5, witness: Enter was handled in the middle of a line, on the last row
\* of the viewport
C5_Witness ==
    /\ KeyDone(IntKey(KEY_ENTER))
    /\ last.pre.col > 0
    /\ Len(CurLine) > 0
    /\ top_line_idx > 0
    /\ CurLineIdx = last.pre.line + 1

\* C6: Delete inside a line removes the character at col; Delete at the end
\* of a line that has a next line appends the next line and removes it;
\* Delete at the end of the last line changes nothing; the cursor (line and
\* col) stays where it is in each case
C6_Delete ==
    [][ KeyStep(IntKey(KEY_DELETE))
        => /\ top_line_idx' + row' = CurLineIdx
           /\ col' = col
           /\ col < Len(CurLine)
                => content' = [content EXCEPT ![CurLineIdx + 1] =
                                  Take(CurLine, col) \o Drop(CurLine, col + 1)]
           /\ (col = Len(CurLine) /\ CurLineIdx + 1 < Len(content))
                => /\ content' = Take(content, CurLineIdx)
                                 \o << CurLine \o content[CurLineIdx + 2] >>
                                 \o Drop(content, CurLineIdx + 2)
                   /\ Len(content') = Len(content) - 1
           /\ (col = Len(CurLine) /\ CurLineIdx + 1 = Len(content))
                => content' = content ]_vars

\* C6, witness: Delete was handled at the end of a line and joined a
\* non-empty next line to it
C6_Witness ==
    /\ KeyDone(IntKey(KEY_DELETE))
    /\ Len(content) = last.pre.lines - 1
    /\ Len(CurLine) > col

\* C7: the characters of a chunk of n >= 1 printable characters are put into
\* the current line at the cursor column, in order, the rest of the line
\* moving right; col advances by n and no other line changes.  Each key of
\* the chunk puts its character in at col, and when the last key of a chunk
\* of several is handled the line holds the whole chunk where the cursor was
\* when the chunk was read.
C7_InsertChunk ==
    [][ /\ \A k \in {StrKey(<<c>>) : c \in Chars} :
            KeyStep(k)
            => /\ content' = [content EXCEPT ![CurLineIdx + 1] =
                                 Take(CurLine, col) \o k.v \o Drop(CurLine, col)]
               /\ col' = col + 1
               /\ top_line_idx' + row' = CurLineIdx
        /\ (/\ pc = "reading" /\ pc' = "reading"
            /\ i > 0 /\ i < Len(buf.v) /\ i' = 0
            /\ buf.t = "str" /\ \A n \in 1..Len(buf.v) : buf.v[n] > 31
            /\ ~last'.consumed)
            => /\ content' = [at_read.content EXCEPT ![at_read.line + 1] =
                                 Take(at_read.content[at_read.line + 1], at_read.col)
                                 \o buf.v
                                 \o Drop(at_read.content[at_read.line + 1], at_read.col)]
               /\ col' = at_read.col + Len(buf.v)
               /\ top_line_idx' + row' = at_read.line ]_vars

\* C7, witness: the second character of a chunk of two was put in
C7_Witness ==
    /\ KeyDone(StrKey(<<98>>))
    /\ last.idx = 1
    /\ last.pre.col > 0
    /\ col = last.pre.col + 1
    /\ col >= 2
    /\ CurLine[col - 1] = 97
    /\ CurLine[col] = 98

\* C7, second witness condition: a character was put in before the rest of a line
C7_ShiftWitness ==
    /\ KeyDone(StrKey(<<97>>))
    /\ Len(CurLine) > col
    /\ CurLine[col] = 97
    /\ CurLine[col + 1] = 98

----------------------------------------------------------------------------
(* The text API alone: one call on the constructed editor *)

MaxText == 4       \* characters of a text given to set_text

TextInputs == SeqsUpTo(Chars \cup {NL}, MaxText)
LineListInputs == SeqsUpTo(SeqsUpTo(Chars, MaxChars), MaxLines - 1)

NextText ==
    \/ \E text \in TextInputs : last.op = "none" /\ SetText(text)
    \/ \E lines \in LineListInputs : last.op = "none" /\ SetTextLines(lines)

SpecText == Init /\ [][NextText]_vars

----------------------------------------------------------------------------
(* The editor under key input and calls of the text API *)

ApiLineLists == { <<>>, << <<>> >>, << <<97>>, <<98>> >> }
ApiTexts == { <<>>, <<97, NL>> }

NextApi ==
    \/ Next
    \/ \E lines \in ApiLineLists : SetTextLines(lines)
    \/ \E text \in ApiTexts : SetText(text)

SpecApi == Init /\ [][NextApi]_vars

----------------------------------------------------------------------------
(* edit() from its call to its end: input typed while init_tty runs, and   *)
(* the keys that end the loop                                               *)

\* typed during init_tty: nothing, Ctrl+C, a letter, the letter R
TypedAhead == { <<>>, <<3>>, <<97>>, <<82>> }

\* typed during init_tty after the answer: nothing, a letter, Ctrl+S
TypedLater == { <<>>, <<97>>, <<19>> }

\* Ctrl+S, Ctrl+C, Enter, Backspace, Up, a letter; chunks of two keys: a
\* letter before Ctrl+S and before Enter, and a letter after Ctrl+C and after
\* Ctrl+S
LifeChunks ==
    { <<19>>, <<3>>, <<13>>, <<127>>, <<27, 91, 65>>, <<97>>,
      <<97, 19>>, <<97, 13>>, <<3, 97>>, <<19, 97>> }

InitLife == Constructed(1..MaxHeight, {FALSE}, {0, TermRows - 1})

NextLife ==
    \/ \E typed \in TypedAhead, late \in TypedLater : EditEnter(typed, late)
    \/ \E chunk \in LifeChunks, consume \in BOOLEAN : ReadKey(chunk, consume)
    \/ \E consume \in BOOLEAN : ReadPending(consume)
    \/ \E consume \in BOOLEAN : NextKey(consume)

SpecLife == InitLife /\ [][NextLife]_vars

----------------------------------------------------------------------------
(* The abort and quit keys as the host configures them *)

\* the letters A to Z, and two lower-case letters
Letters == (65..90) \cup {109, 113}

\* every control byte that a letter gives, and a letter
ControlChunks == { <<n>> : n \in 1..26 } \cup { <<97>> }

InitKeys ==
    \/ Configured(1..MaxHeight, {FALSE}, {0}, {67}, Letters, {TermCols})
    \/ Configured(1..MaxHeight, {FALSE}, {0}, Letters, {83}, {TermCols})

NextKeys ==
    \/ EditEnter(<<>>, <<>>)
    \/ \E chunk \in ControlChunks : ReadKey(chunk, FALSE)

SpecKeys == InitKeys /\ [][NextKeys]_vars

----------------------------------------------------------------------------
(* The editor under key input and calls of set_status_lines *)

MaxStatus == 3     \* lines of a status given to set_status_lines

\* the status lines given: lists of up to MaxStatus lines, the text of which
\* is of no account for the rows they take; with an editor of MaxHeight rows
\* they fit the terminal
StatusInputs ==
    { [n \in 1..k |-> <<>>] : k \in 0..Min(MaxStatus, TermRows - MaxHeight) }

\* Enter, Backspace, Up, Down, Left, End, a letter
StatusChunks ==
    { <<13>>, <<127>>, <<27, 91, 65>>, <<27, 91, 66>>, <<27, 91, 68>>, <<27, 79, 70>>,
      <<97>> }

NextStatus ==
    \/ EditEnter(<<>>, <<>>)
    \/ \E chunk \in StatusChunks : ReadKey(chunk, FALSE)
    \/ \E lines \in StatusInputs : SetStatusLines(lines)

SpecStatus == Init /\ [][NextStatus]_vars

----------------------------------------------------------------------------
(* The editor wherever the cursor stands on the terminal when edit() is     *)
(* called, with a text and a status set before, and a status set in hooks   *)

\* the texts set before edit(): one line, two lines, three lines
RowsTexts == { << <<>> >>, << <<97>>, <<>> >>, << <<>>, <<>>, <<>> >> }

\* Enter, Backspace, Delete, Up, Down, a letter
RowsChunks ==
    { <<13>>, <<127>>, <<27, 91, 51, 126>>, <<27, 91, 65>>, <<27, 91, 66>>, <<97>> }

InitRows == Constructed(1..MaxHeight, {FALSE}, 0..(TermRows - 1))

\* the host sets the text before it calls edit()
SetTextBefore(lines) == pc = "idle" /\ SetTextLines(lines)

NextRows ==
    \/ \E lines \in RowsTexts : SetTextBefore(lines)
    \/ EditEnter(<<>>, <<>>)
    \/ \E chunk \in RowsChunks : ReadKey(chunk, FALSE)
    \/ \E lines \in StatusInputs : SetStatusLines(lines)

SpecRows == InitRows /\ [][NextRows]_vars

----------------------------------------------------------------------------
(* The editor with input typed ahead, and a terminal that is resized *)

MaxAhead == 1      \* bytes typed ahead that wait in the input queue

\* typed while init_tty runs, before the answer to its query: nothing, a letter
AheadAtInit == { <<>>, <<97>> }

\* typed ahead: a letter, Enter
AheadBytes == { <<97>>, <<13>> }

\* Backspace and Enter in one chunk, Backspace and a letter in one chunk,
\* Enter, a letter, Up, Ctrl+S
AheadChunks == { <<127, 13>>, <<127, 97>>, <<13>>, <<97>>, <<27, 91, 65>>, <<19>> }

\* the widths after a resize
ResizeWidths == { TermCols - 1, TermCols }

NextAhead ==
    \/ \E typed \in AheadAtInit : EditEnter(typed, <<>>)
    \/ \E chunk \in AheadChunks : ReadKey(chunk, FALSE)
    \/ ReadPending(FALSE)
    \/ NextKey(FALSE)
    \/ \E bytes \in AheadBytes : TypeAhead(bytes, MaxAhead)
    \/ \E w \in ResizeWidths : Resize(w)

SpecAhead == Init /\ [][NextAhead]_vars

----------------------------------------------------------------------------
(* The editor under key input on narrow terminals, with and without the   *)
(* line-number gutter                                                      *)

\* the widths of the terminal: 3 columns and more
Widths == 3..TermCols

InitWide == Configured(1..MaxHeight, BOOLEAN, {0}, {67}, {83}, Widths)

SpecWide == InitWide /\ [][Next]_vars

----------------------------------------------------------------------------
(* Properties of the text API and of edit() *)

\* C2: the content list always holds at least one line, after set_text_lines
\* and set_text with any argument and after any key
C2_NeverEmpty == Len(content) >= 1

\* C2, witness: set_text_lines([]) was called from a hook while the loop runs
C2_Witness ==
    /\ last.op = "set_text_lines"
    /\ last.arg = <<>>
    /\ last.pc = "reading"
    /\ pc = "reading"

\* C2, second witness condition: Backspace and Delete were handled on a
\* buffer of one line
C2_KeyWitness ==
    /\ KeyDone(IntKey(KEY_BACKSPACE)) \/ KeyDone(IntKey(KEY_DELETE))
    /\ last.pre.lines = 1

\* C8: for any string s, get_text() after set_text(s) returns s
C8_TextRoundTrip == last.op = "set_text" => get_text = last.arg

\* C8, witness: set_text was called with a text that begins with a line
\* break and ends with one
C8_Witness ==
    /\ last.op = "set_text"
    /\ Len(last.arg) = 3
    /\ last.arg[1] = NL
    /\ last.arg[3] = NL
    /\ Len(content) = 3
    /\ get_text = last.arg

\* C9 as stated: for any list L, the empty list included, get_text_lines()
\* after set_text_lines(L) returns L
C9_LinesRoundTrip == last.op = "set_text_lines" => get_text_lines = last.arg

\* C9, amended: for any non-empty list L, get_text_lines() after
\* set_text_lines(L) returns L; after set_text_lines([]) it returns [""]
C9_LinesRoundTripNonEmpty ==
    last.op = "set_text_lines"
    => get_text_lines = IF last.arg = <<>> THEN << <<>> >> ELSE last.arg

\* C9, witness: set_text_lines was called with a list of several lines, an
\* empty one among them
C9_Witness ==
    /\ last.op = "set_text_lines"
    /\ Len(last.arg) >= 2
    /\ \E n \in 1..Len(last.arg) : last.arg[n] = <<>>

\* C10: when edit() has ended, by the quit key, the abort key or an
\* exception, the terminal attributes are those captured at init and the
\* host's SIGWINCH handler is installed again
C10_TerminalRestored ==
    pc \in {"returned", "raised"} => termios = "cooked" /\ sig_win_ch = "host"

----------------------------------------------------------------------------
(* Properties of the loop: abort, quit, the on_key hook, the key table *)

\* this step is an iteration of the loop on some key
LoopStep == pc = "reading" /\ last'.op = "key"

\* C11: when the abort key is received and on_key does not consume it,
\* edit() ends by raising KeyboardInterrupt, the buffer and the cursor are as
\* before the key, nothing of the chunk is handled after it, and the terminal
\* is deinitialized (attributes and SIGWINCH handler restored)
C11_AbortRaises ==
    [][ (LoopStep /\ last'.key = control_key_abort /\ ~last'.consumed)
        => /\ pc' = "raised"
           /\ exc' = "KeyboardInterrupt"
           /\ content' = content
           /\ top_line_idx' = top_line_idx
           /\ row' = row
           /\ col' = col
           /\ buf'.v = <<>>
           /\ i' = 0
           /\ termios' = "cooked"
           /\ sig_win_ch' = "host"
           /\ ~initialized' ]_vars

\* C11, witness: the abort key came first in a chunk of two keys, after text
\* had been typed, and edit() has raised
C11_Witness ==
    /\ pc = "raised"
    /\ exc = "KeyboardInterrupt"
    /\ last.op = "key"
    /\ last.key = control_key_abort
    /\ last.rest > 0
    /\ content # << <<>> >>
    /\ termios = "cooked"

\* C12 as stated: for every letter X of A-Z configured as the quit key
\* (the abort key), a chunk of the one byte ord(X) - ord("A") + 1, not
\* consumed by a hook, makes the loop return (raise KeyboardInterrupt)
C12_ControlKeys ==
    [][ (/\ LoopStep
         /\ ~last'.consumed
         /\ last'.idx = 0
         /\ last'.rest = 0
         /\ control_key_quit # control_key_abort)
        => /\ last'.unit = control_key_quit => pc' = "returned"
           /\ last'.unit = control_key_abort
                => pc' = "raised" /\ exc' = "KeyboardInterrupt" ]_vars

\* C13: when on_key returns true for a key, the buffer, the cursor and the
\* viewport stay as they are, on_edit and on_cursor_pos_change are not
\* called, the loop neither returns nor raises, whatever the key is, and it
\* goes on with the next key of the chunk or with the next read
C13_ConsumedKey ==
    [][ (LoopStep /\ last'.consumed)
        => /\ content' = content
           /\ top_line_idx' = top_line_idx
           /\ row' = row
           /\ col' = col
           /\ last'.on_edit = 0
           /\ last'.on_cursor_pos_change = 0
           /\ pc' = "reading"
           /\ IF last'.rest > 0 THEN i' < Len(buf'.v) ELSE i' = Len(buf'.v) ]_vars

\* C13, witness: on_key consumed the abort key, the first key of a chunk of
\* two, and the loop goes on
C13_Witness ==
    /\ pc = "reading"
    /\ last.op = "key"
    /\ last.consumed
    /\ last.key = control_key_abort
    /\ last.rest > 0
    /\ i < Len(buf.v)

\* C19 as stated: in a chunk that does not begin with ESC, each byte 0x0d
\* is the key Enter, each byte 0x7f the key Backspace, and each quit or abort
\* control byte ends the loop, wherever in the chunk the byte stands
C19_TableBytes ==
    (last.op = "key" /\ Len(last.unit.v) = 1)
    => /\ last.unit.v = <<13>> => last.key = IntKey(KEY_ENTER)
       /\ last.unit.v = <<127>> => last.key = IntKey(KEY_BACKSPACE)
       /\ (last.unit.v = control_key_quit.v /\ ~last.consumed) => pc = "returned"
       /\ (last.unit.v = control_key_abort.v /\ ~last.consumed) => pc = "raised"

----------------------------------------------------------------------------
(* Properties of the cursor keys *)

\* nothing of the buffer, the cursor and the viewport changes in this step
Unmoved ==
    /\ content' = content
    /\ top_line_idx' = top_line_idx
    /\ row' = row
    /\ col' = col

\* C14 as stated: after PageUp or PageDown top_line_idx lies in
\* [0, total_lines - height], or is 0 when total_lines < height, and the
\* cursor is on a line of the buffer with col <= the length of that line
C14_PageKeys ==
    [][ (KeyStep(IntKey(KEY_PGUP)) \/ KeyStep(IntKey(KEY_PGDN)))
        => /\ top_line_idx' >= 0
           /\ top_line_idx' <= Max(0, Len(content') - height)
           /\ top_line_idx' + row' >= 0
           /\ top_line_idx' + row' < Len(content')
           /\ col' <= Len(content'[top_line_idx' + row' + 1]) ]_vars

\* C15: Down (Up), when there is a line after (before) the cursor line, moves
\* the cursor line index by +1 (-1) and sets col to min(col, length of the
\* line reached); top_line_idx changes by one, row staying, exactly when row
\* was height - 1 (0), else row changes by one, top_line_idx staying; on the
\* last (first) line the key changes nothing; the buffer is not changed
C15_UpDown ==
    [][ /\ KeyStep(IntKey(KEY_DOWN))
            => IF CurLineIdx + 1 < Len(content)
               THEN /\ content' = content
                    /\ top_line_idx' + row' = CurLineIdx + 1
                    /\ col' = Min(col, Len(content[CurLineIdx + 2]))
                    /\ IF row = height - 1
                       THEN top_line_idx' = top_line_idx + 1 /\ row' = row
                       ELSE top_line_idx' = top_line_idx /\ row' = row + 1
               ELSE Unmoved
        /\ KeyStep(IntKey(KEY_UP))
            => IF CurLineIdx > 0
               THEN /\ content' = content
                    /\ top_line_idx' + row' = CurLineIdx - 1
                    /\ col' = Min(col, Len(content[CurLineIdx]))
                    /\ IF row = 0
                       THEN top_line_idx' = top_line_idx - 1 /\ row' = row
                       ELSE top_line_idx' = top_line_idx /\ row' = row - 1
               ELSE Unmoved ]_vars

\* C15, witness: Down was handled on the last row of the viewport and went to
\* a shorter line, where col was reduced to the length of that line
C15_Witness ==
    /\ KeyDone(IntKey(KEY_DOWN))
    /\ CurLineIdx = last.pre.line + 1
    /\ top_line_idx > 0
    /\ col < last.pre.col
    /\ col = Len(CurLine)

\* C15, second witness condition: Up was handled in a viewport of several
\* rows and reached its first row
C15_UpWitness ==
    /\ KeyDone(IntKey(KEY_UP))
    /\ CurLineIdx = last.pre.line - 1
    /\ row = 0
    /\ height > 1

\* C16: Left at col 0 of a line L > 0 moves the cursor to the end of line
\* L-1; Right at the end of a line L that has a next line moves it to
\* (L+1, 0); inside a line Left and Right change col by one and stay on the
\* line; neither changes the buffer
C16_LeftRight ==
    [][ /\ KeyStep(IntKey(KEY_LEFT))
            => /\ content' = content
               /\ (col = 0 /\ CurLineIdx > 0)
                    => /\ top_line_idx' + row' = CurLineIdx - 1
                       /\ col' = Len(content[CurLineIdx])
               /\ (col > 0 /\ col <= Len(CurLine))
                    => /\ top_line_idx' + row' = CurLineIdx
                       /\ col' = col - 1
        /\ KeyStep(IntKey(KEY_RIGHT))
            => /\ content' = content
               /\ (col = Len(CurLine) /\ CurLineIdx + 1 < Len(content))
                    => /\ top_line_idx' + row' = CurLineIdx + 1
                       /\ col' = 0
               /\ col < Len(CurLine)
                    => /\ top_line_idx' + row' = CurLineIdx
                       /\ col' = col + 1 ]_vars

\* C16, witness: Left was handled at col 0 and went to the end of a
\* non-empty line before
C16_Witness ==
    /\ KeyDone(IntKey(KEY_LEFT))
    /\ last.pre.col = 0
    /\ CurLineIdx = last.pre.line - 1
    /\ col > 0
    /\ col = Len(CurLine)

\* C16, second witness condition: Right was handled at the end of a
\* non-empty line and went to the start of the next line
C16_RightWitness ==
    /\ KeyDone(IntKey(KEY_RIGHT))
    /\ last.pre.col > 0
    /\ CurLineIdx = last.pre.line + 1
    /\ col = 0

\* C17: Left at (0, 0), Right at the end of the last line, and Backspace at
\* (0, 0) leave the buffer, the cursor and the viewport as they are
C17_BoundaryKeys ==
    [][ /\ (KeyStep(IntKey(KEY_LEFT)) /\ CurLineIdx = 0 /\ col = 0) => Unmoved
        /\ (KeyStep(IntKey(KEY_RIGHT)) /\ CurLineIdx = Len(content) - 1
                /\ col = Len(CurLine)) => Unmoved
        /\ (KeyStep(IntKey(KEY_BACKSPACE)) /\ CurLineIdx = 0 /\ col = 0)
            => Unmoved ]_vars

\* C17, witness: Right was handled at the end of the last line of a buffer
\* of several lines, the last one not empty
C17_Witness ==
    /\ KeyDone(IntKey(KEY_RIGHT))
    /\ last.pre.line = Len(content) - 1
    /\ last.pre.col = Len(content[Len(content)])
    /\ last.pre.col > 0
    /\ Len(content) > 1

\* C17, second witness condition: Backspace was handled at (0, 0) of a
\* buffer whose first line is not empty
C17_BackspaceWitness ==
    /\ KeyDone(IntKey(KEY_BACKSPACE))
    /\ last.pre.line = 0
    /\ last.pre.col = 0
    /\ Len(content[1]) > 0

----------------------------------------------------------------------------
(* Properties of the status lines *)

\* C20: when set_status_lines, called while the editor is initialized, leaves
\* k fewer status lines than there were, the rows reserved (prev_total_height)
\* decrease by exactly k, the controller's cursor is afterwards where it was
\* before the call, at the editor cursor (its row, its shifted column), and
\* the buffer, col, row and top_line_idx are unchanged
C20_StatusShrinks ==
    [][ (/\ pc = "reading"
         /\ last'.op = "set_status_lines"
         /\ Len(status_content') <= Len(status_content))
        => /\ pc' = "reading"
           /\ prev_total_height'
                = prev_total_height - (Len(status_content) - Len(status_content'))
           /\ tty_row' = tty_row
           /\ tty_col' = tty_col
           /\ tty_row' = row
           /\ tty_col' = ShiftedCol(col + Gutter(St), width)
           /\ Unmoved ]_vars

\* C20, witness: set_status_lines was called in the loop with one line when
\* there were three, two rows fewer are reserved, and the cursor is not at
\* the origin of the editor
C20_Witness ==
    /\ pc = "reading"
    /\ last.op = "set_status_lines"
    /\ Len(last.arg) = 1
    /\ last.was = 3
    /\ Len(status_content) = 1
    /\ prev_total_height = actual_height(St) + 1
    /\ row > 0
    /\ col > 0
    /\ tty_row = row

----------------------------------------------------------------------------
(* Properties of the rendering *)

\* C18 as stated: for any width >= 3 and gutter setting, after each key is
\* handled the current line as it was last drawn in the cursor row is
\* shifted by as many characters as set_cursor shifted the cursor column, so
\* that the terminal cursor is over the character col of the line
C18_SameShift ==
    (pc = "reading" /\ last.op = "key")
    => drawn[row + 1]
         = (col + Gutter(St)) - ShiftedCol(col + Gutter(St), width)

----------------------------------------------------------------------------
(* Properties of the keys that are neither cursor keys nor quit nor abort *)

\* this step handles a key that on_key did not consume and that is neither
\* the abort key, nor the quit key, nor a cursor key
OtherKeyStep ==
    /\ LoopStep
    /\ ~last'.consumed
    /\ last'.key \notin {control_key_abort, control_key_quit}
    /\ ~IsCursorKey(last'.key)

\* the keys handle_key returns for before it reaches on_edit: an escape
\* sequence, and a control character up to 31, as bytes or as str
IsIgnoredKey(key) ==
    /\ key.t # "int"
    /\ \/ key.t = "bytes" /\ key.v[1] = ESC
       \/ Len(key.v) = 1 /\ key.v[1] <= 31

\* on_edit was called once for the key of this step, and found the text, the
\* cursor, the viewport and the screen as the step leaves them, with the
\* terminal cursor in the row of the editor cursor
EditHookLast ==
    /\ last'.on_edit = 1
    /\ last'.seen = [content |-> content', top_line_idx |-> top_line_idx',
                     row |-> row', col |-> col', tty_row |-> tty_row',
                     drawn |-> drawn']
    /\ tty_row' = row'

\* C21 as stated: every key that on_key does not consume and that is neither
\* the abort key, the quit key nor a cursor key is followed by exactly one
\* call of on_edit, made after the text is updated and drawn
C21_EveryOtherKeyEdits ==
    [][ OtherKeyStep => EditHookLast ]_vars

\* C21, amended: such a key is followed by exactly one call of on_edit, made
\* after the text is updated and drawn, when it is Enter, Backspace, Delete, a
\* character above 31 or a byte above 31 that is not ESC; for an escape
\* sequence and for a control character up to 31 on_edit is not called and
\* nothing changes; on_cursor_pos_change is called once in both cases
C21_EditKeysCallOnEdit ==
    [][ OtherKeyStep
        => /\ pc' = "reading"
           /\ last'.on_cursor_pos_change = 1
           /\ IF IsIgnoredKey(last'.key)
              THEN last'.on_edit = 0 /\ Unmoved
              ELSE EditHookLast ]_vars

\* C21, witness: Enter has split a line that holds text, and on_edit was
\* called once, finding the two lines
C21_Witness ==
    /\ pc = "reading"
    /\ last.op = "key"
    /\ last.key = IntKey(KEY_ENTER)
    /\ last.on_edit = 1
    /\ Len(last.seen.content) = 2
    /\ last.seen.content = content
    /\ TotalChars(content) > 0

\* C21, witness of the other case: Tab was received with text in the buffer
\* and on_edit was not called
C21_IgnoredWitness ==
    /\ pc = "reading"
    /\ last.op = "key"
    /\ last.key = BytesKey(<<9>>)
    /\ ~last.consumed
    /\ last.on_edit = 0
    /\ TotalChars(content) > 0

\* a key the key table does not hold and that is no text: bytes (an escape
\* sequence, a control byte, a byte of a chunk that was not decoded), or a
\* control character up to 31 of a chunk that was decoded
IsRawKey(key) ==
    /\ key.t # "int"
    /\ key \notin {control_key_abort, control_key_quit}
    /\ key.t = "bytes" \/ key.v[1] <= 31

\* C22: a key that is a control byte up to 31 other than Enter, quit and
\* abort, an escape sequence the key table does not hold, or a byte of a
\* chunk that is not UTF-8, leaves the text, the cursor and the viewport as
\* they are, and the loop goes on without an exception
C22_RawKeysIgnored ==
    [][ (LoopStep /\ IsRawKey(last'.key))
        => /\ Unmoved
           /\ pc' = "reading"
           /\ exc' = exc ]_vars

\* C22, witness: the sequence ESC [ Z was received with the cursor on the
\* second line of a buffer that holds text, and the loop goes on
C22_Witness ==
    /\ pc = "reading"
    /\ last.op = "key"
    /\ last.key = BytesKey(<<27, 91, 90>>)
    /\ top_line_idx + row = 1
    /\ TotalChars(content) > 0

\* C22, witness of a byte that is not UTF-8: 0xff came second in its chunk,
\* after a letter, with text in the buffer
C22_UndecodedWitness ==
    /\ pc = "reading"
    /\ last.op = "key"
    /\ last.key = BytesKey(<<255>>)
    /\ last.idx = 1
    /\ TotalChars(content) > 0

----------------------------------------------------------------------------
(* Properties of the rows reserved on the terminal *)

\* the rows the editor and the status lines need now: total_height()
TotalHeight == Min(height, Len(content)) + Len(status_content)

\* C23: on a terminal of TermRows rows that scrolls at a line feed on its
\* last row, with a total height that fits it: after init_tty, and after
\* each growth of the reserved space, screen_top + r is the terminal row that
\* holds logical row r, a row of the screen, for every r below the total
\* height; and the row the controller has recorded after a growth is the
\* one it had recorded before
C23_ScreenTopIsRowZero ==
    /\ pc = "reading"
         => \A r \in 0..(TotalHeight - 1) :
                /\ screen_top + r = term_origin + r
                /\ term_origin + r \in 0..(TermRows - 1)
    /\ grown.n > 0
         => /\ \A r \in 0..(grown.total - 1) :
                  /\ grown.screen_top + r = grown.term_origin + r
                  /\ grown.term_origin + r \in 0..(TermRows - 1)
            /\ grown.row_after = grown.row_before

\* C23, witness: Enter has made the reserved space grow to three rows on the
\* last row of the terminal, which has scrolled by one row; the controller
\* had recorded the editor's first row before, and has recorded it after
C23_Witness ==
    /\ pc = "reading"
    /\ last.op = "key"
    /\ last.key = IntKey(KEY_ENTER)
    /\ grown.n = 1
    /\ grown.total = 3
    /\ grown.scrolled = 1
    /\ grown.row_before = 0
    /\ term_origin = TermRows - 3
    /\ screen_top = TermRows - 3

\* C23, witness of init_tty: edit() was called with three lines of text and
\* the cursor on the last row of the terminal, which has scrolled by two rows
C23_InitWitness ==
    /\ pc = "reading"
    /\ last.op = "edit"
    /\ grown.n = 1
    /\ grown.total = 3
    /\ grown.scrolled = 2
    /\ screen_top = TermRows - 3

\* C23, witness of a status set in a hook: the reserved space has grown to
\* all rows of the terminal, which has scrolled
C23_StatusWitness ==
    /\ pc = "reading"
    /\ last.op = "set_status_lines"
    /\ grown.total = TermRows
    /\ grown.scrolled > 0
    /\ screen_top = 0

\* the loop is blocked in os.read: no key of a chunk is left to handle
BlockedInRead == pc = "reading" /\ i = Len(buf.v)

\* C24 as stated: whenever the loop is blocked waiting for input, the rows
\* the controller holds reserved, prev_total_height, are min(height,
\* total_lines) plus the number of status lines
C24_ReservedRowsMatch ==
    BlockedInRead => prev_total_height = TotalHeight

----------------------------------------------------------------------------
(* Properties of the input queue *)

\* C25 as stated: the cursor-position query, issued when the reserved space
\* grows and by the resize handler, takes only the answer of the terminal
\* from the input queue: what was typed before edit() read the answer to its
\* first query is still at the head of the queue, and a step that handles
\* the next key of a chunk, or a resize, makes no os.read of the loop and
\* leaves the bytes that wait in the queue as they are
C25_PendingKeysKept ==
    [][ /\ (pc = "idle" /\ last'.op = "edit")
             => Take(stdin', Len(last'.typed)) = last'.typed
        /\ (pc = "reading" /\ last'.op = "resize")
             => stdin' = stdin
        /\ (pc = "reading" /\ last'.op = "key" /\ i < Len(buf.v))
             => stdin' = stdin ]_vars

====
